---- MODULE Spec2Model ----
(***************************************************************************)
(* Model of the InstaPose AI session state machine (src/App.tsx), the      *)
(* camera capture (src/components/CameraView.tsx), the remote Gemini calls *)
(* (services/geminiService) and the persisted gallery.                     *)
(*                                                                         *)
(* React state is modelled one variable per useState/useRef cell.  A user  *)
(* event is one atomic step: the handler runs to its first await, React    *)
(* re-renders and the passive effects (gallery persistence) run before the *)
(* next event is delivered.  Each await of a remote call is a suspension   *)
(* point: the call is kept in `pending` and a later step delivers its      *)
(* result or its failure and runs the continuation up to the next await.   *)
(***************************************************************************)
EXTENDS Integers, Sequences, FiniteSets, TLC

VARIABLES
    isAnalyzing,        \* App.tsx:11
    isGrading,          \* App.tsx:12
    analysisResult,     \* App.tsx:14
    poseFeedback,       \* App.tsx:15
    generatedPoseImage, \* App.tsx:16
    poseLandmarks,      \* App.tsx:17
    gallery,            \* App.tsx:20
    selectedGender,     \* App.tsx:30
    selectedStyle,      \* App.tsx:31
    error,              \* App.tsx:32
    autoSaveMessage,    \* App.tsx:33
    flash,              \* App.tsx:34
    captureIntent,      \* App.tsx:37
    storage,            \* localStorage slot 'instapose_gallery'
    now,                \* the last value Date.now() returned
    frames,             \* number of frames the camera has delivered so far
    pending,            \* remote calls awaiting a response
    timers              \* the kinds of setTimeout callback not yet run

vars == <<isAnalyzing, isGrading, analysisResult, poseFeedback,
          generatedPoseImage, poseLandmarks, gallery, selectedGender,
          selectedStyle, error, autoSaveMessage, flash, captureIntent,
          storage, now, frames, pending, timers>>

session == <<analysisResult, poseFeedback, generatedPoseImage, poseLandmarks>>
busy == <<isAnalyzing, isGrading>>
selection == <<selectedGender, selectedStyle>>
toast == <<autoSaveMessage, flash, timers>>
store == <<gallery, storage>>

----------------------------------------------------------------------------
(* Bounds of the model *)

\* frames the camera delivers in one run
MaxFrames == 3
\* milliseconds the clock may advance past StartClock
MaxTicks == 1

(* Program constants *)

\* gallery capacity, updated.slice(0, 20)
MaxGallery == 20
\* Capture Photo is offered only above this score
SaveThreshold == 50

\* null in a cell holding an object, and null in a cell holding a string
Null == [null |-> TRUE]
NullStr == "null"

\* first value of Date.now() in a run; entries stored by earlier runs are older
StartClock == MaxGallery

Gender == {"Female", "Male", "Neutral"}
PoseStyle == {"Casual Social", "Professional/LinkedIn", "Creative/Artistic",
              "Streetwear/Cool", "Glamour/Model"}
Intent == {"analyze", "grade", "save"}

\* the options the user picks from in a run
GenderChoices == {"Female", "Male"}
StyleChoices == {"Casual Social", "Glamour/Model"}

\* the ids the user may pick to delete: the newest entry of the earlier run
\* and whatever this run stores
DeleteChoices == {StartClock - 1} \cup (StartClock..(StartClock + MaxTicks))

AnalyzeError == "AI was unable to generate a suggestion. Please try again."
GradeError == "Could not grade pose. Try again."
SavedMessage == "Photo saved to Gallery!"

(* What the remote service may answer *)
Descriptions == {"D1", "D2"}
AnalysisResults == [suggestedPose : [description : Descriptions]]
ReferenceImages == {"R1"}
LandmarkResults == {[nose |-> "P1"], Null}
Scores == {40, 72}

----------------------------------------------------------------------------
(* Gallery store *)

Min(a, b) == IF a < b THEN a ELSE b

\* Array.prototype.slice(0, n)
Slice(s, n) == SubSeq(s, 1, Min(n, Len(s)))

\* Array.prototype.filter
RECURSIVE Filter(_, _)
Filter(s, id) ==
    IF s = <<>> THEN <<>>
    ELSE IF Head(s).id # id THEN <<Head(s)>> \o Filter(Tail(s), id)
    ELSE Filter(Tail(s), id)

\* the append without its slice(0, 20)
AppendToGallery_NoSlice(newImage, prev) == <<newImage>> \o prev

\* the append with the new entry pushed at the back: [...prev, newImage]
AppendToGallery_AtBack(newImage, prev) == Slice(prev \o <<newImage>>, MaxGallery)

\* setGallery(prev => [newImage, ...prev].slice(0, 20))
AppendToGallery(newImage, prev) == Slice(<<newImage>> \o prev, MaxGallery)

\* the removal with its test inverted: prev.filter(img => img.id === id)
RemoveFromGallery_KeepsMatching(id, prev) ==
    LET Matches(img) == img.id = id IN SelectSeq(prev, Matches)

\* setGallery(prev => prev.filter(img => img.id !== id))
RemoveFromGallery(id, prev) == Filter(prev, id)

\* the stored score not read from the feedback: score: 0
SaveScore_Zero(feedback) == 0

\* the stored score with the Capture Photo threshold applied to it as well
SaveScore_Gated(feedback) ==
    IF feedback = Null THEN 0
    ELSE IF feedback.score > SaveThreshold THEN feedback.score ELSE 0

\* poseFeedback?.score || 0
SaveScore(feedback) ==
    IF feedback = Null THEN 0
    ELSE IF feedback.score = 0 THEN 0 ELSE feedback.score

\* the GalleryImage literal of the save branch; Date.now() is read twice
NewImage(base64Image, referenceImage, feedback, t1, t2) ==
    [id |-> t1,
     imageData |-> base64Image,
     referenceImage |-> referenceImage,
     score |-> SaveScore(feedback),
     timestamp |-> t2]

\* a GalleryImage as JSON text: its values in the order of its keys
ImageToJson(img) ==
    <<img.id, img.imageData, img.referenceImage, img.score, img.timestamp>>

\* the GalleryImage that JSON text parses to
ImageFromJson(text) ==
    [id |-> text[1],
     imageData |-> text[2],
     referenceImage |-> text[3],
     score |-> text[4],
     timestamp |-> text[5]]

\* JSON.stringify(gallery) as written by the persistence effect
Stringify(g) == [kind |-> "json", text |-> [i \in 1..Len(g) |-> ImageToJson(g[i])]]

\* JSON.parse(saved) of a text that is an array of objects
Parse(text) == [i \in 1..Len(text) |-> ImageFromJson(text[i])]

\* the number of entries a slot holds
SlotLength(slot) == IF slot.kind = "json" THEN Len(slot.text) ELSE 0

\* the persistence effect, which runs after every render that changed the
\* gallery: setItem stores the text, or throws and leaves the slot as it
\* was, and the catch only logs.  The origin's quota is what makes it throw,
\* so it may throw only for a text of more entries than the one it replaces.
Persist(g, slot) ==
    IF Len(g) > SlotLength(slot) THEN {Stringify(g), slot} ELSE {Stringify(g)}

\* the lazy initialiser of the gallery state
LoadGallery(slot) ==
    IF slot.kind = "missing" THEN <<>>
    ELSE IF slot.kind = "corrupt" THEN <<>>
    ELSE Parse(slot.text)

\* a gallery of n entries written by an earlier run of the program
StoredGallery(n) ==
    [i \in 1..n |-> [id |-> n - i, imageData |-> 0, referenceImage |-> NullStr,
                     score |-> 72, timestamp |-> n - i]]

\* the slot when the application starts for the first time, or damaged
FreshSlots == {[kind |-> "missing"], [kind |-> "corrupt"]}

\* the slot holding JSON text that something other than this program wrote:
\* [{}], an array of one object with none of the keys of a GalleryImage.  A
\* key that is missing reads as undefined: -1 in a cell that holds a number.
ForeignSlots ==
    {[kind |-> "json", text |-> << <<-1, -1, "undefined", -1, -1>> >>]}

\* interface GalleryImage: id, imageData, score and timestamp are required
IsGalleryImage(img) ==
    /\ img.id >= 0
    /\ img.imageData >= 0
    /\ img.score >= 0
    /\ img.timestamp >= 0

\* the slot when the application starts after earlier runs
UsedSlots == {Stringify(StoredGallery(0)), Stringify(StoredGallery(MaxGallery))}

----------------------------------------------------------------------------
(* What is rendered *)

\* the controls container and the Suggest Pose button: {!analysisResult ? ...}
IdleControlsShown == analysisResult = Null

\* <button onClick={triggerAnalysis} disabled={isAnalyzing}>
AnalysisButtonEnabled == ~isAnalyzing

\* <button onClick={triggerGrading} disabled={isGrading}>
GradingButtonEnabled == analysisResult # Null /\ ~isGrading

\* Capture Photo rendered in the active-session branch without its condition
CaptureButtonShown_NoGate == analysisResult # Null

\* {poseFeedback && poseFeedback.score > 50 ? <Capture Photo> : ...}
CaptureButtonShown ==
    /\ analysisResult # Null
    /\ poseFeedback # Null
    /\ poseFeedback.score > SaveThreshold

\* the New Pose button lives in the active-session branch
ResetButtonShown == analysisResult # Null

----------------------------------------------------------------------------
(* Remote calls *)

\* a suspended call: which service function, the arguments that select its
\* answer, and the session fields as they were when the pipeline it belongs
\* to was started.  Gender and style only word the prompt; the service may
\* give any of its answers for any of them, so they are not kept.
Call(fn, arg, before) == [fn |-> fn, arg |-> arg, before |-> before]

\* the arguments of a call: a camera frame (0 when the call takes none), a
\* generated image, a description
Args(frame, image, description) ==
    [frame |-> frame, image |-> image, description |-> description]

Snapshot ==
    [analysisResult |-> analysisResult, poseFeedback |-> poseFeedback,
     generatedPoseImage |-> generatedPoseImage,
     poseLandmarks |-> poseLandmarks]

\* if (!analysisResult) return;
GradeSkipped(result) == result = Null

----------------------------------------------------------------------------
\* the state after the first render and its effects
Mounted(slots) ==
    /\ isAnalyzing = FALSE
    /\ isGrading = FALSE
    /\ analysisResult = Null
    /\ poseFeedback = Null
    /\ generatedPoseImage = NullStr
    /\ poseLandmarks = Null
    /\ \E slot \in slots :
          /\ gallery = LoadGallery(slot)
          /\ storage \in Persist(gallery, slot)
    /\ selectedGender = "Female"
    /\ selectedStyle = "Casual Social"
    /\ error = NullStr
    /\ autoSaveMessage = NullStr
    /\ flash = FALSE
    /\ captureIntent = "analyze"
    /\ now = StartClock
    /\ frames = 0
    /\ pending = {}
    /\ timers = {}

Init == Mounted(FreshSlots)

----------------------------------------------------------------------------
(* handleCaptureFrame, up to its first await *)

HandleAnalyze(base64Image) ==
    /\ error' = NullStr
    /\ autoSaveMessage' = NullStr
    /\ isAnalyzing' = TRUE
    /\ poseFeedback' = Null
    /\ poseLandmarks' = Null
    /\ pending' = pending \cup
          {Call("analyzeSceneAndSuggest", Args(base64Image, NullStr, NullStr),
                Snapshot)}
    /\ UNCHANGED <<isGrading, analysisResult, generatedPoseImage, store,
                   selection, flash, timers, now>>

\* the grade branch with setIsGrading(true) moved before the guard and the
\* guard's return placed outside the try, so that finally does not run
HandleGrade_FlagBeforeGuard(base64Image) ==
    /\ error' = NullStr
    /\ autoSaveMessage' = NullStr
    /\ isGrading' = TRUE
    /\ IF GradeSkipped(analysisResult)
       THEN pending' = pending
       ELSE pending' = pending \cup
                {Call("evaluatePoseMatch",
                      Args(base64Image, NullStr,
                           analysisResult.suggestedPose.description),
                      Snapshot)}
    /\ UNCHANGED <<isAnalyzing, session, store, selection, flash, timers, now>>

HandleGrade(base64Image) ==
    /\ error' = NullStr
    /\ autoSaveMessage' = NullStr
    /\ IF GradeSkipped(analysisResult)
       THEN /\ isGrading' = FALSE
            /\ pending' = pending
       ELSE /\ isGrading' = TRUE
            /\ pending' = pending \cup
                  {Call("evaluatePoseMatch",
                        Args(base64Image, NullStr,
                             analysisResult.suggestedPose.description),
                        Snapshot)}
    /\ UNCHANGED <<isAnalyzing, session, store, selection, flash, timers, now>>

HandleSave(base64Image) ==
    \E t1 \in now..(StartClock + MaxTicks) :
      \E t2 \in t1..(StartClock + MaxTicks) :
        /\ error' = NullStr
        /\ now' = t2
        /\ gallery' = AppendToGallery(
                NewImage(base64Image, generatedPoseImage, poseFeedback, t1, t2),
                gallery)
        /\ storage' \in Persist(gallery', storage)
        /\ flash' = TRUE
        /\ autoSaveMessage' = SavedMessage
        /\ timers' = timers \cup {"flash", "message"}
        /\ UNCHANGED <<busy, session, selection, pending>>

\* the handler dispatching on the intent of the capture before this one
HandleCaptureFrame_StaleIntent(base64Image) ==
    IF captureIntent = "analyze" THEN HandleAnalyze(base64Image)
    ELSE IF captureIntent = "grade" THEN HandleGrade(base64Image)
    ELSE HandleSave(base64Image)

\* the branch is chosen by captureIntent.current, which the trigger has just
\* written: capture() calls onCaptureFrame before it returns
HandleCaptureFrame(base64Image) ==
    IF captureIntent' = "analyze" THEN HandleAnalyze(base64Image)
    ELSE IF captureIntent' = "grade" THEN HandleGrade(base64Image)
    ELSE HandleSave(base64Image)

\* CameraView.capture: draw the video frame and hand it to onCaptureFrame
Capture ==
    /\ frames < MaxFrames
    /\ frames' = frames + 1
    /\ HandleCaptureFrame(frames + 1)

triggerAnalysis ==
    /\ captureIntent' = "analyze"
    /\ Capture

triggerGrading ==
    /\ captureIntent' = "grade"
    /\ Capture

triggerSave ==
    /\ captureIntent' = "save"
    /\ Capture

\* reset without its setPoseLandmarks(null)
reset_KeepsLandmarks ==
    /\ analysisResult' = Null
    /\ generatedPoseImage' = NullStr
    /\ poseFeedback' = Null
    /\ error' = NullStr
    /\ autoSaveMessage' = NullStr
    /\ UNCHANGED <<busy, poseLandmarks, store, selection, flash, timers,
                   captureIntent, now, frames, pending>>

\* reset emptying the gallery together with the session
reset_ClearsGallery ==
    /\ analysisResult' = Null
    /\ generatedPoseImage' = NullStr
    /\ poseLandmarks' = Null
    /\ poseFeedback' = Null
    /\ error' = NullStr
    /\ autoSaveMessage' = NullStr
    /\ gallery' = <<>>
    /\ storage' \in Persist(gallery', storage)
    /\ UNCHANGED <<busy, selection, flash, timers, captureIntent, now,
                   frames, pending>>

reset ==
    /\ analysisResult' = Null
    /\ generatedPoseImage' = NullStr
    /\ poseLandmarks' = Null
    /\ poseFeedback' = Null
    /\ error' = NullStr
    /\ autoSaveMessage' = NullStr
    /\ UNCHANGED <<busy, store, selection, flash, timers, captureIntent, now,
                   frames, pending>>

deleteFromGallery(id) ==
    /\ gallery' = RemoveFromGallery(id, gallery)
    /\ storage' \in Persist(gallery', storage)
    /\ UNCHANGED <<busy, session, selection, error, toast, captureIntent, now,
                   frames, pending>>

----------------------------------------------------------------------------
(* The user's actions, as the rendered controls allow them *)

ClickSuggestPose ==
    /\ IdleControlsShown
    /\ AnalysisButtonEnabled
    /\ triggerAnalysis

ClickRegenerate ==
    /\ ~IdleControlsShown
    /\ AnalysisButtonEnabled
    /\ triggerAnalysis

ClickCheckAlignment ==
    /\ GradingButtonEnabled
    /\ triggerGrading

ClickCapturePhoto ==
    /\ CaptureButtonShown
    /\ triggerSave

ClickNewPose ==
    /\ ResetButtonShown
    /\ reset

ClickDelete ==
    \E i \in 1..Len(gallery) :
        /\ gallery[i].id \in DeleteChoices
        /\ deleteFromGallery(gallery[i].id)

SelectGender ==
    /\ IdleControlsShown
    /\ \E g \in GenderChoices :
          /\ g # selectedGender
          /\ selectedGender' = g
    /\ UNCHANGED <<busy, session, store, selectedStyle, error, toast,
                   captureIntent, now, frames, pending>>

SelectStyle ==
    /\ IdleControlsShown
    /\ \E s \in StyleChoices :
          /\ s # selectedStyle
          /\ selectedStyle' = s
    /\ UNCHANGED <<busy, session, store, selectedGender, error, toast,
                   captureIntent, now, frames, pending>>

----------------------------------------------------------------------------
(* Continuations of handleCaptureFrame after each await *)

\* the catch of the analyze branch without the finally after it
AnalyzeAbandoned_NoFinally(c) ==
    /\ error' = AnalyzeError
    /\ isAnalyzing' = isAnalyzing
    /\ pending' = pending \ {c}

\* catch + finally of the analyze branch
AnalyzeAbandoned(c) ==
    /\ error' = AnalyzeError
    /\ isAnalyzing' = FALSE
    /\ pending' = pending \ {c}

\* steps 2 and 3 requested together when step 1 is done, the landmarks being
\* extracted from the reference image held so far
SceneReturns_Eager ==
    \E c \in pending : \E result \in AnalysisResults :
        /\ c.fn = "analyzeSceneAndSuggest"
        /\ analysisResult' = result
        /\ pending' = (pending \ {c}) \cup
              {Call("generatePoseReference",
                    Args(0, NullStr, result.suggestedPose.description),
                    c.before),
               Call("extractPoseLandmarks",
                    Args(0, generatedPoseImage, NullStr),
                    c.before)}
        /\ UNCHANGED <<busy, poseFeedback, generatedPoseImage, poseLandmarks,
                       store, selection, error, toast, captureIntent, now,
                       frames>>

\* analyzeSceneAndSuggest resolves: step 1 done, step 2 requested
SceneReturns ==
    \E c \in pending : \E result \in AnalysisResults :
        /\ c.fn = "analyzeSceneAndSuggest"
        /\ analysisResult' = result
        /\ pending' = (pending \ {c}) \cup
              {Call("generatePoseReference",
                    Args(0, NullStr, result.suggestedPose.description),
                    c.before)}
        /\ UNCHANGED <<busy, poseFeedback, generatedPoseImage, poseLandmarks,
                       store, selection, error, toast, captureIntent, now,
                       frames>>

\* analyzeSceneAndSuggest rejects
SceneFails ==
    \E c \in pending :
        /\ c.fn = "analyzeSceneAndSuggest"
        /\ AnalyzeAbandoned(c)
        /\ UNCHANGED <<isGrading, session, store, selection, toast,
                       captureIntent, now, frames>>

\* generatePoseReference resolves: step 2 done, step 3 requested
ReferenceReturns ==
    \E c \in pending : \E poseImageBase64 \in ReferenceImages :
        /\ c.fn = "generatePoseReference"
        /\ generatedPoseImage' = poseImageBase64
        /\ pending' = (pending \ {c}) \cup
              {Call("extractPoseLandmarks",
                    Args(0, poseImageBase64, NullStr),
                    c.before)}
        /\ UNCHANGED <<busy, analysisResult, poseFeedback, poseLandmarks,
                       store, selection, error, toast, captureIntent, now,
                       frames>>

\* generatePoseReference rejects
ReferenceFails ==
    \E c \in pending :
        /\ c.fn = "generatePoseReference"
        /\ AnalyzeAbandoned(c)
        /\ UNCHANGED <<isGrading, session, store, selection, toast,
                       captureIntent, now, frames>>

\* extractPoseLandmarks resolves, with landmarks or with null; it never rejects
LandmarksReturns ==
    \E c \in pending : \E landmarks \in LandmarkResults :
        /\ c.fn = "extractPoseLandmarks"
        /\ poseLandmarks' = landmarks
        /\ isAnalyzing' = FALSE
        /\ pending' = pending \ {c}
        /\ UNCHANGED <<isGrading, analysisResult, poseFeedback,
                       generatedPoseImage, store, selection, error, toast,
                       captureIntent, now, frames>>

\* evaluatePoseMatch resolves
EvaluateReturns ==
    \E c \in pending : \E score \in Scores :
        /\ c.fn = "evaluatePoseMatch"
        /\ poseFeedback' = [score |-> score, target |-> c.arg.description]
        /\ isGrading' = FALSE
        /\ pending' = pending \ {c}
        /\ UNCHANGED <<isAnalyzing, analysisResult, generatedPoseImage,
                       poseLandmarks, store, selection, error, toast,
                       captureIntent, now, frames>>

\* evaluatePoseMatch rejects
EvaluateFails ==
    \E c \in pending :
        /\ c.fn = "evaluatePoseMatch"
        /\ error' = GradeError
        /\ isGrading' = FALSE
        /\ pending' = pending \ {c}
        /\ UNCHANGED <<isAnalyzing, session, store, selection, toast,
                       captureIntent, now, frames>>

----------------------------------------------------------------------------
(* Timers.  Every callback of a kind writes the same value, so the cells    *)
(* they write go through the same values whether one or several callbacks  *)
(* of that kind are waiting: `timers` keeps the kinds that are waiting.     *)

\* setTimeout(() => setFlash(false), 200)
FlashTimeout ==
    /\ "flash" \in timers
    /\ flash' = FALSE
    /\ timers' = timers \ {"flash"}
    /\ UNCHANGED <<busy, session, store, selection, error, autoSaveMessage,
                   captureIntent, now, frames, pending>>

\* setTimeout(() => setAutoSaveMessage(null), 3000)
MessageTimeout ==
    /\ "message" \in timers
    /\ autoSaveMessage' = NullStr
    /\ timers' = timers \ {"message"}
    /\ UNCHANGED <<busy, session, store, selection, error, flash,
                   captureIntent, now, frames, pending>>

Completion ==
    \/ SceneReturns
    \/ SceneFails
    \/ ReferenceReturns
    \/ ReferenceFails
    \/ LandmarksReturns
    \/ EvaluateReturns
    \/ EvaluateFails
    \/ FlashTimeout
    \/ MessageTimeout

Next ==
    \/ ClickSuggestPose
    \/ ClickRegenerate
    \/ ClickCheckAlignment
    \/ ClickCapturePhoto
    \/ ClickNewPose
    \/ ClickDelete
    \/ SelectGender
    \/ SelectStyle
    \/ Completion

Spec == Init /\ [][Next]_vars

----------------------------------------------------------------------------------------------------------------------------------------------------------------------------------------------------
(* The handlers driven directly, as a test harness drives them: each      *)
(* trigger, reset and onDelete is called in whatever session state the    *)
(* earlier calls left, without the rendering conditions, once the         *)
(* previous pipeline has run to completion; onDelete is called with any   *)
(* id, stored or not.                                                     *)

Settled == pending = {}

CallAnalysis ==
    /\ Settled
    /\ triggerAnalysis

CallGrading ==
    /\ Settled
    /\ triggerGrading

CallSave ==
    /\ Settled
    /\ triggerSave

CallReset ==
    /\ Settled
    /\ reset

CallDelete ==
    /\ Settled
    /\ \E id \in DeleteChoices : deleteFromGallery(id)

NextHandlers ==
    \/ CallAnalysis
    \/ CallGrading
    \/ CallSave
    \/ CallReset
    \/ CallDelete
    \/ Completion

InitHandlers == Mounted(FreshSlots \cup UsedSlots)

HandlerSpec == InitHandlers /\ [][NextHandlers]_vars

----------------------------------------------------------------------------
(* The application when every remote call is answered: a suspended call    *)
(* resolves or rejects, and the event loop then runs the continuation of   *)
(* its await.  Nothing is assumed of the user or of the timers.            *)

Responsive ==
    /\ WF_vars(SceneReturns \/ SceneFails)
    /\ WF_vars(ReferenceReturns \/ ReferenceFails)
    /\ WF_vars(LandmarksReturns)
    /\ WF_vars(EvaluateReturns \/ EvaluateFails)

FairSpec == Init /\ [][Next]_vars /\ Responsive

----------------------------------------------------------------------------
(* The gallery store driven alone: saves and removals, and the timers a    *)
(* save starts                                                             *)

NextStore ==
    \/ CallSave
    \/ CallDelete
    \/ FlashTimeout
    \/ MessageTimeout

StoreSpec == InitHandlers /\ [][NextStore]_vars

----------------------------------------------------------------------------
(* The application started on whatever the slot may hold *)

InitLoad == Mounted(FreshSlots \cup UsedSlots \cup ForeignSlots)

LoadSpec == InitLoad /\ [][Next]_vars

----------------------------------------------------------------------------
(* Steps and states the properties speak about *)

\* a step in which a frame is captured and dispatched for the given intent
Dispatched(intent) == frames' = frames + 1 /\ captureIntent' = intent

\* an entry stored by this run (the entries of earlier runs hold frame 0)
StoredNow(img) == img.imageData > 0

NewestFirst(g) ==
    \A i, j \in 1..Len(g) : i < j => g[i].timestamp >= g[j].timestamp

\* what each branch of handleCaptureFrame does to the frame just captured
BranchRan(intent) ==
    IF intent = "analyze"
    THEN /\ \E c \in pending' \ pending :
              c.fn = "analyzeSceneAndSuggest" /\ c.arg.frame = frames'
         /\ isAnalyzing'
         /\ gallery' = gallery
    ELSE IF intent = "grade"
    THEN /\ \A c \in pending' \ pending :
              c.fn = "evaluatePoseMatch" /\ c.arg.frame = frames'
         /\ (analysisResult # Null) = (pending' # pending)
         /\ isAnalyzing' = isAnalyzing
         /\ gallery' = gallery
    ELSE /\ pending' = pending
         /\ busy' = busy
         /\ gallery' # <<>>
         /\ gallery'[1].imageData = frames'

\* the suspended calls of analyze pipelines
AnalyzeCalls ==
    {c \in pending : c.fn \in {"analyzeSceneAndSuggest", "generatePoseReference",
                               "extractPoseLandmarks"}}

----------------------------------------------------------------------------
(* C1: if the analyze pipeline fails at the reference-generation step, the *)
(* session's AnalysisResult, feedback and reference image are all absent   *)
(* afterwards.                                                             *)
C1_NoPartialResult ==
    [][ReferenceFails =>
          /\ analysisResult' = Null
          /\ poseFeedback' = Null
          /\ generatedPoseImage' = NullStr]_vars

(* C2: in every reachable state at most one of the busy flags is true and  *)
(* at most one analyze-or-grade pipeline is outstanding.                   *)
C2_OnePipeline ==
    /\ ~(isAnalyzing /\ isGrading)
    /\ Cardinality(pending) <= 1

(* C3: in every reachable state PoseFeedback is present only if            *)
(* AnalysisResult is present.                                              *)
C3_FeedbackNeedsAnalysis == poseFeedback # Null => analysisResult # Null

(* C4: whenever feedback is present together with an AnalysisResult, it    *)
(* was computed against the suggested pose description of that             *)
(* AnalysisResult.                                                         *)
C4_FeedbackOfCurrentAnalysis ==
    (poseFeedback # Null /\ analysisResult # Null) =>
        poseFeedback.target = analysisResult.suggestedPose.description

C6_AppendAtCapacity ==
    [][(Dispatched("save") /\ Len(gallery) = MaxGallery) =>
          /\ Len(gallery') = MaxGallery
          /\ gallery'[1].imageData = frames'
          /\ \A i \in 1..(MaxGallery - 1) : gallery'[i + 1] = gallery[i]]_vars

\* the gallery after a save at capacity: the oldest stored entry is gone
C6_Witness ==
    /\ Len(gallery) = MaxGallery
    /\ gallery[1].imageData = frames
    /\ gallery[2] = StoredGallery(MaxGallery)[1]
    /\ gallery[MaxGallery] = StoredGallery(MaxGallery)[MaxGallery - 1]

(* C7: a save stores an entry whose score is the score of the feedback     *)
(* held at the capture, or 0 if none is held, and whose reference image is *)
(* the session's reference image; it starts no remote call.                *)
C7_SaveFromSession ==
    [][Dispatched("save") =>
          /\ gallery'[1].imageData = frames'
          /\ gallery'[1].score =
                 (IF poseFeedback = Null THEN 0 ELSE poseFeedback.score)
          /\ gallery'[1].referenceImage = generatedPoseImage
          /\ pending' = pending]_vars

\* saved after a pose was suggested and graded below the threshold
C7_Witness ==
    /\ gallery # <<>>
    /\ StoredNow(gallery[1])
    /\ gallery[1].score = 40
    /\ gallery[1].referenceImage \in ReferenceImages

(* C8 as stated: in every state in which AnalysisResult is present (and    *)
(* the camera can still deliver a frame) the save capture is available.    *)
C8_SaveAlwaysAvailable ==
    (analysisResult # Null /\ frames < MaxFrames) => ENABLED ClickCapturePhoto

(* C8 as amended: in every state in which AnalysisResult is present, the   *)
(* save capture is available exactly when feedback with a score above 50   *)
(* is held.                                                                *)
C8_SaveAvailableAboveThreshold ==
    (analysisResult # Null /\ frames < MaxFrames) =>
        (ENABLED ClickCapturePhoto <=>
            (poseFeedback # Null /\ poseFeedback.score > SaveThreshold))

\* a suggested pose graded above the threshold, with a frame still to take
C8_Witness ==
    /\ analysisResult # Null
    /\ poseFeedback # Null
    /\ poseFeedback.score > SaveThreshold
    /\ frames < MaxFrames

(* C9: a grade capture dispatched while AnalysisResult is absent starts no *)
(* remote call, leaves feedback unchanged and leaves the grading flag      *)
(* clear.                                                                  *)
C9_GradeWithoutAnalysis ==
    [][(Dispatched("grade") /\ analysisResult = Null) =>
          /\ pending' = pending
          /\ poseFeedback' = poseFeedback
          /\ isGrading' = FALSE]_vars

\* the first frame of a run was dispatched for grading
C9_Witness ==
    /\ captureIntent = "grade"
    /\ frames = 1
    /\ analysisResult = Null
    /\ pending = {}
    /\ ~isGrading

(* C10: when an analyze or grade pipeline fails, AnalysisResult, feedback, *)
(* reference image and landmarks equal their values from before the        *)
(* attempt started, the pipeline's busy flag is cleared and an error       *)
(* message is set.                                                         *)
C10_FailureRestoresSession ==
    [][(SceneFails \/ ReferenceFails \/ EvaluateFails) =>
          \E c \in pending \ pending' :
              /\ Snapshot' = c.before
              /\ error' # NullStr
              /\ (IF c.fn = "evaluatePoseMatch" THEN isGrading' ELSE isAnalyzing')
                    = FALSE]_vars

(* C11: a stored GalleryImage never changes: every step keeps each entry   *)
(* it does not remove exactly as it was, only a save adds one, and every   *)
(* analyze, grade, reset and every completion of a suspended call leaves   *)
(* the gallery sequence unchanged.                                         *)
C11_GalleryFrame ==
    [][/\ \/ gallery' = gallery
          \/ \A i \in 1..Len(gallery') :
                \/ \E j \in 1..Len(gallery) : gallery'[i] = gallery[j]
                \/ Dispatched("save") /\ i = 1
       /\ (Dispatched("analyze") \/ Dispatched("grade") \/ CallReset
              \/ Completion) => gallery' = gallery]_vars

\* an entry saved with no feedback held still has score 0 after a pose was
\* suggested and graded
C11_Witness ==
    /\ gallery # <<>>
    /\ gallery[1].imageData = 1
    /\ gallery[1].score = 0
    /\ gallery[1].referenceImage = NullStr
    /\ poseFeedback # Null
    /\ generatedPoseImage # NullStr

(* C12: after every append or remove the durable copy equals the           *)
(* in-memory gallery, so that loading it reconstructs exactly the ordered  *)
(* sequence of GalleryImage records held in memory.                        *)
C12_DurableEqualsMemory ==
    /\ storage = Stringify(gallery)
    /\ LoadGallery(storage) = gallery

(* C13: remove(id) deletes the entries whose id matches and keeps every    *)
(* other entry in its order; it changes nothing when no entry has the id;  *)
(* applying it twice gives what applying it once gives.  For every         *)
(* reachable gallery and every id the user or a caller may pass.           *)
C13_RemoveById ==
    \A id \in DeleteChoices :
        LET Others(img) == img.id # id
            once == RemoveFromGallery(id, gallery)
        IN  /\ once = SelectSeq(gallery, Others)
            /\ (\A i \in 1..Len(gallery) : gallery[i].id # id) => once = gallery
            /\ RemoveFromGallery(id, once) = once

\* the newest entry of the earlier run was removed from between an entry
\* saved by this run and the older ones
C13_Witness ==
    /\ Len(gallery) = MaxGallery - 1
    /\ StoredNow(gallery[1])
    /\ ~StoredNow(gallery[2])
    /\ gallery[2].id = StartClock - 2
    /\ gallery[MaxGallery - 1].id = 1

\* the slot is the text of a sequence of GalleryImage records
IsStoredGallery(slot) ==
    /\ slot.kind = "json"
    /\ \A i \in 1..Len(slot.text) : IsGalleryImage(ImageFromJson(slot.text[i]))

\* the application has just started on the slot
JustLoaded(slot) == frames = 0 /\ gallery = LoadGallery(slot)

(* C14: when the application starts on a slot that is missing or holds     *)
(* anything that is not the text of a sequence of GalleryImage records,    *)
(* the gallery it loads is the empty sequence.                             *)
C14_LoadFallsBackToEmpty ==
    \A slot \in FreshSlots \cup UsedSlots \cup ForeignSlots :
        (JustLoaded(slot) /\ ~IsStoredGallery(slot)) => gallery = <<>>

(* C15: the three requests of an analyze pipeline are issued in the order  *)
(* scene analysis, reference generation, landmark extraction, each only    *)
(* when the one before it has returned, so that no two of them are         *)
(* outstanding together; the reference request carries the description     *)
(* scene analysis returned and the landmark request carries the image      *)
(* reference generation returned.                                          *)
C15_PipelineOrder ==
    [][/\ Cardinality(AnalyzeCalls') <= 1
       /\ \A c \in pending' \ pending :
            /\ c.fn = "analyzeSceneAndSuggest" =>
                  /\ Dispatched("analyze")
                  /\ c.arg.frame = frames'
            /\ c.fn = "generatePoseReference" =>
                  /\ \E p \in pending \ pending' :
                         p.fn = "analyzeSceneAndSuggest"
                  /\ analysisResult' # Null
                  /\ c.arg.description =
                         analysisResult'.suggestedPose.description
            /\ c.fn = "extractPoseLandmarks" =>
                  /\ \E p \in pending \ pending' :
                         p.fn = "generatePoseReference"
                  /\ generatedPoseImage' # NullStr
                  /\ c.arg.image = generatedPoseImage']_vars

\* the third request is outstanding, for the image the second returned
C15_Witness ==
    /\ isAnalyzing
    /\ analysisResult # Null
    /\ \E c \in pending :
          /\ c.fn = "extractPoseLandmarks"
          /\ c.arg.image = generatedPoseImage
          /\ c.arg.image \in ReferenceImages

(* C16: the purpose a captured frame is dispatched for is the intent set   *)
(* by the trigger that requested the frame, whatever the intent of the     *)
(* capture before it was and whatever pipelines are suspended.             *)
C16_IntentDispatched ==
    [][\A intent \in Intent : Dispatched(intent) => BranchRan(intent)]_vars

\* a frame was dispatched for grading while an analyze pipeline was
\* suspended, and that pipeline has gone on to its third request since
C16_Witness ==
    /\ captureIntent = "grade"
    /\ \E c \in pending : c.fn = "extractPoseLandmarks"
    /\ \E c \in pending :
          c.fn = "evaluatePoseMatch" /\ c.arg.frame = frames

(* C17: the step that takes the session out of Suggested or Graded, the    *)
(* reset, leaves AnalysisResult, feedback, reference image, landmarks and  *)
(* the error message absent, and leaves the gallery and the selected       *)
(* gender and style as they were.                                          *)
C17_ResetToIdle ==
    [][(analysisResult # Null /\ analysisResult' = Null) =>
          /\ poseFeedback' = Null
          /\ generatedPoseImage' = NullStr
          /\ poseLandmarks' = Null
          /\ error' = NullStr
          /\ gallery' = gallery
          /\ selectedGender' = selectedGender
          /\ selectedStyle' = selectedStyle]_vars

\* reset after a pose was suggested for the other gender and graded
C17_Witness ==
    /\ analysisResult = Null
    /\ poseFeedback = Null
    /\ generatedPoseImage = NullStr
    /\ poseLandmarks = Null
    /\ error = NullStr
    /\ captureIntent = "grade"
    /\ pending = {}
    /\ selectedGender = "Male"

(* C18: when landmark extraction returns null, the analyze cycle completes *)
(* as a success: AnalysisResult and the reference image are present,       *)
(* landmarks are absent, the analyzing flag is cleared and the completion  *)
(* sets no error message.                                                  *)
C18_NullLandmarksIsSuccess ==
    [][(LandmarksReturns /\ poseLandmarks' = Null) =>
          /\ analysisResult' # Null
          /\ generatedPoseImage' # NullStr
          /\ isAnalyzing' = FALSE
          /\ error' = error]_vars

(* C19: in every reachable state the ids of the stored GalleryImages are   *)
(* pairwise distinct, so that remove(id) deletes at most one entry.        *)
C19_DistinctIds ==
    /\ \A i, j \in 1..Len(gallery) : i # j => gallery[i].id # gallery[j].id
    /\ \A id \in DeleteChoices :
          Len(RemoveFromGallery(id, gallery)) >= Len(gallery) - 1

\* AnalysisResult, reference image, landmarks and feedback are all absent
IdleSession ==
    /\ analysisResult = Null
    /\ poseFeedback = Null
    /\ generatedPoseImage = NullStr
    /\ poseLandmarks = Null

\* in a state without AnalysisResult: the suspended call belongs to a
\* pipeline that was started while an AnalysisResult was held, or that has
\* itself set one, so that a reset has come since
StartedBeforeReset(c) ==
    \/ c.fn \in {"generatePoseReference", "extractPoseLandmarks",
                 "evaluatePoseMatch"}
    \/ c.before.analysisResult # Null

(* C20: after reset the session stays Idle until a newly started analyze   *)
(* returns: the completion of a call that was already suspended when reset *)
(* was invoked leaves AnalysisResult, reference image, landmarks and       *)
(* feedback absent.                                                        *)
C20_IdleUntilNextAnalyze ==
    [][(IdleSession /\ \E c \in pending \ pending' : StartedBeforeReset(c))
          => IdleSession']_vars

\* the suspended call of a grade pipeline
GradeCalls == {c \in pending : c.fn = "evaluatePoseMatch"}

(* C21: when every remote call eventually returns or fails, every started  *)
(* analyze or grade pipeline terminates and its busy flag is eventually    *)
(* cleared: a busy flag is set exactly while a call of its pipeline is     *)
(* suspended, and whenever it is set it is later clear.                    *)
C21_PipelinesTerminate ==
    /\ [](isAnalyzing <=> AnalyzeCalls # {})
    /\ [](isGrading <=> GradeCalls # {})
    /\ isAnalyzing ~> ~isAnalyzing
    /\ isGrading ~> ~isGrading

\* an analyze pipeline has ended in failure and a grade pipeline in success
C21_Witness ==
    /\ ~isAnalyzing
    /\ ~isGrading
    /\ pending = {}
    /\ error = AnalyzeError
    /\ poseFeedback # Null

(* C22: started on an empty gallery and used through its rendered         *)
(* controls, the application only ever holds GalleryImages with a score   *)
(* above 50: Capture Photo is offered only while feedback with such a     *)
(* score is held, and the stored score is read from that feedback.        *)
C22_StoredAboveThreshold ==
    \A i \in 1..Len(gallery) : gallery[i].score > SaveThreshold

\* a frame saved after a pose was suggested and graded above the threshold
C22_Witness ==
    /\ gallery # <<>>
    /\ gallery[1].imageData = frames
    /\ gallery[1].score \in Scores
    /\ gallery[1].score > SaveThreshold
    /\ gallery[1].referenceImage \in ReferenceImages

====
